---- MODULE Spec2Model ----
(***************************************************************************)
(* A model of pharmagellan_biotech_financial_model.py: the valuation       *)
(* functions (calculate_npv, calculate_revenue_curve,                      *)
(* simulate_pipeline_cash_flows, calculate_fair_market_values) and the     *)
(* request flow of main.                                                   *)
(*                                                                         *)
(* Numbers.  Python floats are modelled by exact rationals <<n, d>> in     *)
(* lowest terms with d > 0, so every formula below is about the real       *)
(* number the float computation approximates.  Amounts of money are in     *)
(* millions of USD (-500e6 is -500), eligible populations in thousands of  *)
(* patients and prices per patient in thousands of USD, so that            *)
(* population * price is again in millions.  Share counts are plain        *)
(* numbers of shares.                                                      *)
(***************************************************************************)
EXTENDS Integers, Sequences, FiniteSets

(***************************************************************************)
(* Rational arithmetic: the float operators +, -, *, /, ** and comparison. *)
(***************************************************************************)
Abs(x) == IF x < 0 THEN -x ELSE x

RECURSIVE GCD(_, _)
GCD(a, b) == IF b = 0 THEN a ELSE GCD(b, a % b)

Norm(n, d) ==
    LET g == GCD(Abs(n), Abs(d))
        s == IF d < 0 THEN -1 ELSE 1
    IN  <<s * (n \div g), s * (d \div g)>>

R(n) == <<n, 1>>

Zero == R(0)

One == R(1)

RNeg(a) == <<-a[1], a[2]>>

RAdd(a, b) ==
    LET g == GCD(a[2], b[2])
        l == (a[2] \div g) * b[2]
    IN  Norm(a[1] * (l \div a[2]) + b[1] * (l \div b[2]), l)

RSub(a, b) == RAdd(a, RNeg(b))

RMul(a, b) ==
    LET g1 == GCD(Abs(a[1]), b[2])
        g2 == GCD(Abs(b[1]), a[2])
    IN  <<(a[1] \div g1) * (b[1] \div g2), (a[2] \div g2) * (b[2] \div g1)>>

\* 1 / a, for a # 0
RInv(a) == IF a[1] > 0 THEN <<a[2], a[1]>> ELSE <<-a[2], -a[1]>>

\* a / b, for b # 0 (a zero divisor is an outcome of its own, see calculate_npv)
RDiv(a, b) == RMul(a, RInv(b))

RECURSIVE RPow(_, _)
RPow(a, k) == IF k = 0 THEN One ELSE RMul(a, RPow(a, k - 1))

RLess(a, b) == RSub(a, b)[1] < 0

RLeq(a, b) == RSub(a, b)[1] <= 0

RAbs(a) == <<Abs(a[1]), a[2]>>

\* Python's max(a, b): the first argument unless the second is greater
RMax(a, b) == IF RLess(a, b) THEN b ELSE a

(***************************************************************************)
(* Configuration (lines 8-22) and the constants written in the functions.  *)
(***************************************************************************)
DEFAULT_DISCOUNT_RATE == Norm(1, 10)

Phases == {"Phase 1", "Phase 2", "Phase 3"}

PHASE_PROBABILITIES ==
    [p \in Phases |->
        CASE p = "Phase 1" -> Norm(6, 10)
          [] p = "Phase 2" -> Norm(36, 100)
          [] p = "Phase 3" -> Norm(63, 100)]

RARE_DISEASE_PHASE_PROBABILITIES ==
    [p \in Phases |->
        CASE p = "Phase 1" -> Norm(7, 10)
          [] p = "Phase 2" -> Norm(45, 100)
          [] p = "Phase 3" -> Norm(8, 10)]

\* -500e6, the cash flow of every delay year (in millions)
DelayCost == R(-500)

\* 1e6, the shares outstanding substituted for a value <= 0
FallbackShares == R(1000000)

\* np.linspace(0.1, 1.0, ramp_years): the two ends of the ramp
RampStart == Norm(1, 10)

RampStop == One

(***************************************************************************)
(* Outcomes of a call: a returned value or an exception that leaves it.    *)
(***************************************************************************)
Return(v) == [kind |-> "return", value |-> v]

Raise(e) == [kind |-> e, value |-> Zero]

\* a float result that is inf, -inf or nan
NonFinite == [kind |-> "return_nonfinite", value |-> Zero]

Returned(r) == r.kind = "return"

(***************************************************************************)
(* calculate_npv (lines 54-58)                                             *)
(***************************************************************************)
\* enumerate(s, start): the pairs <<t, cf>> in order
enumerate(s, start) == [k \in 1..Len(s) |-> <<start + k - 1, s[k]>>]

\* cf / ((1 + discount_rate) ** t)
npv_term(cf, discount_rate, t) == RDiv(cf, RPow(RAdd(One, discount_rate), t))

\* sum(...): a left fold from 0 over the terms in order
RECURSIVE sum(_)
sum(terms) ==
    IF Len(terms) = 0 THEN Zero
    ELSE RAdd(sum(SubSeq(terms, 1, Len(terms) - 1)), terms[Len(terms)])

npv_pairs_start0(cash_flows) == enumerate(cash_flows, 0)

npv_pairs(cash_flows) == enumerate(cash_flows, 1)

\* the value of the sum when no term divides by zero
npv_sum(cash_flows, discount_rate) ==
    LET pairs == npv_pairs(cash_flows)
    IN  sum([k \in 1..Len(pairs) |-> npv_term(pairs[k][2], discount_rate, pairs[k][1])])

\* The call with its outcome.  With 1 + discount_rate = 0 every term divides by
\* 0.0 ** t = 0.0: a Python number raises ZeroDivisionError at the first term,
\* a numpy.float64 gives inf or nan (with a warning) and the sum is returned;
\* with no term at all the sum is the int 0.
calculate_npv(cash_flows, discount_rate, numpy_floats) ==
    IF Len(cash_flows) > 0 /\ RAdd(One, discount_rate) = Zero
    THEN IF numpy_floats THEN NonFinite ELSE Raise("ZeroDivisionError")
    ELSE Return(npv_sum(cash_flows, discount_rate))

(***************************************************************************)
(* calculate_revenue_curve (lines 61-77)                                   *)
(***************************************************************************)
\* np.linspace(start, stop, num) with endpoint=True: num points, step
\* (stop - start) / (num - 1), the last point set to stop when num > 1; for
\* num = 1 the single point is start.
linspace_no_endpoint(start, stop, num) ==
    [k \in 1..num |-> RAdd(start, RMul(R(k - 1), RDiv(RSub(stop, start), R(num))))]

linspace(start, stop, num) ==
    [k \in 1..num |->
        IF num > 1 /\ k = num THEN stop
        ELSE IF num > 1
             THEN RAdd(start, RMul(R(k - 1), RDiv(RSub(stop, start), R(num - 1))))
             ELSE start]

\* eligible_population * price_per_patient * (market_penetration / 100)
peak_revenue_of(eligible_population, price_per_patient, market_penetration) ==
    RMul(RMul(R(eligible_population), price_per_patient),
         RDiv(R(market_penetration), R(100)))

ramp_curve_of(peak_revenue, ramp_years) ==
    LET ps == linspace(RampStart, RampStop, ramp_years)
    IN  [k \in 1..ramp_years |-> RMul(peak_revenue, ps[k])]

peak_curve_of(peak_revenue, peak_years) == [k \in 1..peak_years |-> peak_revenue]

decline_curve_from0(peak_revenue, decline_years, decline_rate) ==
    [k \in 1..decline_years |->
        RMul(peak_revenue, RPow(RSub(One, decline_rate), k - 1))]

\* range(1, decline_years + 1): year = 1..decline_years
decline_curve_of(peak_revenue, decline_years, decline_rate) ==
    [year \in 1..decline_years |->
        RMul(peak_revenue, RPow(RSub(One, decline_rate), year))]

calculate_revenue_curve(eligible_population, price_per_patient, market_penetration, ramp_years, peak_years, decline_years, decline_rate) ==
    LET peak_revenue ==
            peak_revenue_of(eligible_population, price_per_patient, market_penetration)
    IN  ramp_curve_of(peak_revenue, ramp_years)
          \o peak_curve_of(peak_revenue, peak_years)
          \o decline_curve_of(peak_revenue, decline_years, decline_rate)

(***************************************************************************)
(* simulate_pipeline_cash_flows (lines 80-91)                              *)
(***************************************************************************)
delay_flows_one_more(delay_years) == [k \in 1..(delay_years + 1) |-> DelayCost]

\* [-500e6 for _ in range(delay_years)]
delay_flows(delay_years) == [k \in 1..delay_years |-> DelayCost]

simulate_pipeline_cash_flows(eligible_population, price_per_patient, market_penetration, delay_years, ramp_years, peak_years, decline_years, decline_rate) ==
    delay_flows(delay_years)
      \o calculate_revenue_curve(eligible_population, price_per_patient,
                                 market_penetration, ramp_years, peak_years,
                                 decline_years, decline_rate)

(***************************************************************************)
(* Python values that may be None, and dict.get                            *)
(***************************************************************************)
None == [isNone |-> TRUE, v |-> Zero]

Some(x) == [isNone |-> FALSE, v |-> x]

\* d.get(key, default)
get(d, key, default) == IF key \in DOMAIN d THEN d[key] ELSE default

\* x or 0, for x a number or None
or0(x) == IF x.isNone \/ x.v = Zero THEN Zero ELSE x.v

(***************************************************************************)
(* fetch_stock_data (lines 27-51).  The reply of yfinance is the input:    *)
(* [exception |-> ..] when Ticker/info raises, otherwise the info dict, in *)
(* which any key may be missing. Of the six fields returned, the model keeps    *)
(* the two the valuation reads; the other four are only displayed.         *)
(***************************************************************************)
FetchErrorMessage == "Failed to fetch data"

fetch_stock_data(reply) ==
    IF "exception" \in DOMAIN reply
    THEN [error |-> FetchErrorMessage]
    ELSE [market_cap |-> get(reply, "marketCap", None),
          shares_outstanding |-> get(reply, "sharesOutstanding", None)]

(***************************************************************************)
(* calculate_fair_market_values (lines 94-121)                             *)
(***************************************************************************)
current_price_with_fallback(market_cap, shares_outstanding) ==
    RDiv(market_cap,
         IF RLeq(shares_outstanding, Zero) THEN FallbackShares ELSE shares_outstanding)

\* line 102: market_cap / shares_outstanding if shares_outstanding > 0 else 0
current_price(market_cap, shares_outstanding) ==
    IF RLess(Zero, shares_outstanding)
    THEN RDiv(market_cap, shares_outstanding)
    ELSE Zero

projected_market_cap_no_floor(market_cap, npv_pipeline) == RAdd(market_cap, npv_pipeline)

\* line 108: max(0, market_cap + npv_pipeline)
projected_market_cap_of(market_cap, npv_pipeline) ==
    RMax(Zero, RAdd(market_cap, npv_pipeline))

\* lines 111-112: a value <= 0 is replaced by 1e6
effective_shares(shares_outstanding) ==
    IF RLeq(shares_outstanding, Zero) THEN FallbackShares ELSE shares_outstanding

\* lines 117-121: the dict returned
valuation_dict(current, projected, npv_pipeline) ==
    [current_price_per_share |-> current,
     projected_price_per_share |-> projected,
     npv_pipeline |-> npv_pipeline]

\* The call with its outcome: shares_outstanding = None raises TypeError at the
\* comparison of line 102; an exception of calculate_npv propagates.
calculate_fair_market_values(stock_data, pipeline_cash_flows, discount_rate) ==
    LET market_cap == or0(get(stock_data, "market_cap", Some(Zero)))
        shares == get(stock_data, "shares_outstanding", Some(One))
        npv == calculate_npv(pipeline_cash_flows, discount_rate, FALSE)
    IN  IF shares.isNone THEN Raise("TypeError")
        ELSE IF ~Returned(npv) THEN npv
        ELSE Return(valuation_dict(
                 current_price(market_cap, shares.v),
                 RDiv(projected_market_cap_of(market_cap, npv.value),
                      effective_shares(shares.v)),
                 npv.value))

(***************************************************************************)
(* main (lines 126-283): what one pipeline asset adds                      *)
(***************************************************************************)
\* lines 171-179
phase_probability_of(rare_disease, phase) ==
    IF rare_disease = "Yes"
    THEN RARE_DISEASE_PHASE_PROBABILITIES[phase]
    ELSE PHASE_PROBABILITIES[phase]

\* lines 246-255: delay_years = 0
asset_cash_flows(w) ==
    simulate_pipeline_cash_flows(w.eligible_population, w.price_per_patient, w.market_penetration_rate, 0, w.ramp_years, w.peak_years, w.decline_years, w.decline_rate)

\* line 257
risk_adjust(cash_flows, phase_probability) ==
    [k \in 1..Len(cash_flows) |-> RMul(cash_flows[k], phase_probability)]

extend_replacing(pipeline_cash_flows, risk_adjusted_cash_flows) == risk_adjusted_cash_flows

\* line 258: pipeline_cash_flows.extend(risk_adjusted_cash_flows)
extend(pipeline_cash_flows, risk_adjusted_cash_flows) ==
    pipeline_cash_flows \o risk_adjusted_cash_flows

(***************************************************************************)
(* The bounds of the inputs                                                *)
(***************************************************************************)
MaxLen == 3

MaxFmvLen == 2

MaxDelay == 2

MaxRamp == 3

MaxPeakYears == 2

MaxDeclineYears == 2

SeqsUpTo(S, n) == UNION {[1..m -> S] : m \in 0..n}

CashValues == {R(-500), Zero, R(126), R(1260)}

Rates == {R(-2), R(-1), Norm(-1, 2), Zero, DEFAULT_DISCOUNT_RATE, One}

FmvCashValues == {R(-500), Zero, R(126)}

FmvRates == {R(-1), Zero, DEFAULT_DISCOUNT_RATE, One}

MarketCapValues == {None, Some(Zero), Some(R(100)), Some(R(5000))}

SharesValues == {None, Some(R(-5)), Some(Zero), Some(R(4)), Some(R(1000))}

\* the dicts with any of the two keys present
StockDicts ==
    {[market_cap |-> m, shares_outstanding |-> s] : m \in MarketCapValues, s \in SharesValues}
      \cup {[market_cap |-> m] : m \in MarketCapValues}
      \cup {[shares_outstanding |-> s] : s \in SharesValues}
      \cup {<<>>}

Populations == {0, 100}

Prices == {R(50)}

Penetrations == {0, 70, 100}

DeclineRates == {Zero, Norm(1, 10), One}

\* The replies of yfinance: an exception, or an info dict with any of the keys.
\* The market cap and the shares are small enough for the projected price, with
\* its denominator of 11^6 or more, to stay within TLC's integers.
InfoDicts ==
    {[marketCap |-> Some(R(10)), sharesOutstanding |-> Some(R(4))],
     [marketCap |-> Some(R(10))],
     [sharesOutstanding |-> Some(R(4))],
     <<>>}

Replies == {[exception |-> "ConnectionError"]} \cup InfoDicts

Tickers == {"", "BIIB"}

NumAssetsChoices == {1, 2}

\* The widget values of one asset.  The exact discounted sum of two assets
\* (six or more years at 10%) has a denominator of 11^6 or more, so forms with
\* two assets draw from values whose products stay within TLC's integers.
OneAssetWidgets ==
    [rare_disease : {"Yes", "No"}, phase : Phases, eligible_population : {0, 100},
     market_penetration_rate : {70}, price_per_patient : {R(50)}, ramp_years : {1, 2},
     peak_years : {1}, decline_years : {1}, decline_rate : {Norm(1, 10)}]

TwoAssetWidgets ==
    [rare_disease : {"Yes", "No"}, phase : {"Phase 1"}, eligible_population : {0, 1},
     market_penetration_rate : {100}, price_per_patient : {R(1)}, ramp_years : {1},
     peak_years : {1}, decline_years : {1}, decline_rate : {Zero, Norm(1, 2)}]

Widgets(n) == IF n = 1 THEN OneAssetWidgets ELSE TwoAssetWidgets

(***************************************************************************)
(* State                                                                   *)
(***************************************************************************)
VARIABLES
    pc,                  \* where the run is
    fn,                  \* the function called
    args,                \* the arguments of a direct call
    ret,                 \* the outcome of a direct call
    ticker_symbol,       \* main: st.text_input
    stock_data,          \* main: the dict of fetch_stock_data
    num_assets,          \* main: st.number_input
    i,                   \* main: assets done by the loop of line 160
    assets,              \* main: per asset, its widgets, cash_flows and risk_adjusted_cash_flows
    pipeline_cash_flows, \* main: the combined list
    valuation_results,   \* main: the outcome of calculate_fair_market_values
    screen               \* main: what st.error / st.write have shown

vars == <<pc, fn, args, ret, ticker_symbol, stock_data, num_assets, i, assets, pipeline_cash_flows, valuation_results, screen>>

mainVars == <<ticker_symbol, stock_data, num_assets, i, assets, pipeline_cash_flows, valuation_results, screen>>

NotCalled == [kind |-> "none", value |-> Zero]

Init ==
    /\ pc = "idle"
    /\ fn = "none"
    /\ args = <<>>
    /\ ret = NotCalled
    /\ ticker_symbol = ""
    /\ stock_data = <<>>
    /\ num_assets = 0
    /\ i = 0
    /\ assets = <<>>
    /\ pipeline_cash_flows = <<>>
    /\ valuation_results = NotCalled
    /\ screen = <<>>

(***************************************************************************)
(* Direct calls of the four functions                                      *)
(***************************************************************************)
Call_calculate_npv ==
    /\ pc = "idle"
    /\ \E cash_flows \in SeqsUpTo(CashValues, MaxLen), discount_rate \in Rates, numpy_floats \in BOOLEAN :
        /\ args' = [cash_flows |-> cash_flows, discount_rate |-> discount_rate, numpy_floats |-> numpy_floats]
        /\ ret' = calculate_npv(cash_flows, discount_rate, numpy_floats)
    /\ fn' = "calculate_npv"
    /\ pc' = "returned"
    /\ UNCHANGED mainVars

Call_calculate_revenue_curve ==
    /\ pc = "idle"
    /\ \E eligible_population \in Populations, price_per_patient \in Prices, market_penetration \in Penetrations, ramp_years \in 1..MaxRamp, peak_years \in 1..MaxPeakYears, decline_years \in 1..MaxDeclineYears, decline_rate \in DeclineRates :
        /\ args' = [eligible_population |-> eligible_population, price_per_patient |-> price_per_patient, market_penetration |-> market_penetration, ramp_years |-> ramp_years, peak_years |-> peak_years, decline_years |-> decline_years, decline_rate |-> decline_rate]
        /\ ret' = Return(calculate_revenue_curve(eligible_population, price_per_patient, market_penetration, ramp_years, peak_years, decline_years, decline_rate))
    /\ fn' = "calculate_revenue_curve"
    /\ pc' = "returned"
    /\ UNCHANGED mainVars

Call_simulate_pipeline_cash_flows ==
    /\ pc = "idle"
    /\ \E eligible_population \in Populations, price_per_patient \in Prices, market_penetration \in Penetrations, delay_years \in 0..MaxDelay, ramp_years \in 1..MaxRamp, peak_years \in 1..MaxPeakYears, decline_years \in 1..MaxDeclineYears, decline_rate \in DeclineRates :
        /\ args' = [eligible_population |-> eligible_population, price_per_patient |-> price_per_patient, market_penetration |-> market_penetration, delay_years |-> delay_years, ramp_years |-> ramp_years, peak_years |-> peak_years, decline_years |-> decline_years, decline_rate |-> decline_rate]
        /\ ret' = Return(simulate_pipeline_cash_flows(eligible_population, price_per_patient, market_penetration, delay_years, ramp_years, peak_years, decline_years, decline_rate))
    /\ fn' = "simulate_pipeline_cash_flows"
    /\ pc' = "returned"
    /\ UNCHANGED mainVars

Call_calculate_fair_market_values ==
    /\ pc = "idle"
    /\ \E sd \in StockDicts, flows \in SeqsUpTo(FmvCashValues, MaxFmvLen), discount_rate \in FmvRates :
        /\ args' = [stock_data |-> sd, pipeline_cash_flows |-> flows, discount_rate |-> discount_rate]
        /\ ret' = calculate_fair_market_values(sd, flows, discount_rate)
    /\ fn' = "calculate_fair_market_values"
    /\ pc' = "returned"
    /\ UNCHANGED mainVars

(***************************************************************************)
(* main, one run of the script                                             *)
(***************************************************************************)
\* lines 127-140: the title, the disclaimer and the ticker input
Main_Start ==
    /\ pc = "idle"
    /\ \E t \in Tickers :
        /\ ticker_symbol' = t
        /\ pc' = IF t = "" THEN "footer" ELSE "fetch"
    /\ fn' = "main"
    /\ UNCHANGED <<args, ret, stock_data, num_assets, i, assets, pipeline_cash_flows, valuation_results, screen>>

\* line 141
Main_Fetch ==
    /\ pc = "fetch"
    /\ \E reply \in Replies : stock_data' = fetch_stock_data(reply)
    /\ pc' = "check"
    /\ UNCHANGED <<fn, args, ret, ticker_symbol, num_assets, i, assets, pipeline_cash_flows, valuation_results, screen>>

\* lines 142-144: st.error and return
Main_Error ==
    /\ pc = "check"
    /\ "error" \in DOMAIN stock_data
    /\ screen' = Append(screen, "error")
    /\ pc' = "done"
    /\ UNCHANGED <<fn, args, ret, ticker_symbol, stock_data, num_assets, i, assets, pipeline_cash_flows, valuation_results>>

\* lines 146-159: the overview, the balance sheet, the number of assets
Main_Overview ==
    /\ pc = "check"
    /\ "error" \notin DOMAIN stock_data
    /\ screen' = Append(screen, "overview")
    /\ \E n \in NumAssetsChoices : num_assets' = n
    /\ pipeline_cash_flows' = <<>>
    /\ i' = 0
    /\ pc' = "loop"
    /\ UNCHANGED <<fn, args, ret, ticker_symbol, stock_data, assets, valuation_results>>

\* lines 160-258: one pass of the loop
Main_Asset ==
    /\ pc = "loop"
    /\ i < num_assets
    /\ \E w \in Widgets(num_assets) :
        LET phase_probability == phase_probability_of(w.rare_disease, w.phase)
            cash_flows == asset_cash_flows(w)
            risk_adjusted_cash_flows == risk_adjust(cash_flows, phase_probability)
        IN  /\ pipeline_cash_flows' = extend(pipeline_cash_flows, risk_adjusted_cash_flows)
            /\ assets' = Append(assets, [widgets |-> w, cash_flows |-> cash_flows, risk_adjusted_cash_flows |-> risk_adjusted_cash_flows])
    /\ i' = i + 1
    /\ UNCHANGED <<pc, fn, args, ret, ticker_symbol, stock_data, num_assets, valuation_results, screen>>

\* lines 260-264: an exception leaves main (Streamlit shows the traceback)
Main_Valuate ==
    /\ pc = "loop"
    /\ i = num_assets
    /\ valuation_results' = calculate_fair_market_values(stock_data, pipeline_cash_flows, DEFAULT_DISCOUNT_RATE)
    /\ pc' = IF Returned(valuation_results') THEN "show" ELSE "crashed"
    /\ UNCHANGED <<fn, args, ret, ticker_symbol, stock_data, num_assets, i, assets, pipeline_cash_flows, screen>>

\* lines 266-269
Main_Show ==
    /\ pc = "show"
    /\ screen' = Append(screen, "results")
    /\ pc' = "footer"
    /\ UNCHANGED <<fn, args, ret, ticker_symbol, stock_data, num_assets, i, assets, pipeline_cash_flows, valuation_results>>

\* lines 271-283
Main_Footer ==
    /\ pc = "footer"
    /\ pc' = "done"
    /\ UNCHANGED <<fn, args, ret, mainVars>>

Next ==
    \/ Call_calculate_npv
    \/ Call_calculate_revenue_curve
    \/ Call_simulate_pipeline_cash_flows
    \/ Call_calculate_fair_market_values
    \/ Main_Start
    \/ Main_Fetch
    \/ Main_Error
    \/ Main_Overview
    \/ Main_Asset
    \/ Main_Valuate
    \/ Main_Show
    \/ Main_Footer

Spec == Init /\ [][Next]_vars

(***************************************************************************)
(* Properties                                                              *)
(***************************************************************************)
Range(f) == {f[k] : k \in DOMAIN f}

CalledFmv == fn = "calculate_fair_market_values" /\ Returned(ret)

\* the market cap and the shares outstanding the call of ret read
ArgMarketCap ==
    IF "market_cap" \in DOMAIN args.stock_data /\ ~args.stock_data.market_cap.isNone
    THEN args.stock_data.market_cap.v
    ELSE Zero

ArgShares ==
    IF "shares_outstanding" \in DOMAIN args.stock_data
    THEN args.stock_data.shares_outstanding.v
    ELSE One

ArgEffectiveShares == IF ArgShares[1] <= 0 THEN R(1000000) ELSE ArgShares

\* C1 (as amended): whenever calculate_fair_market_values returns, the
\* projected price per share times the effective shares outstanding (the
\* supplied value when > 0, the fallback 1,000,000 when <= 0) is
\* max(0, market_cap + npv_pipeline), so no division has a zero divisor; the
\* current price per share times the supplied shares is the market cap when the
\* supplied shares are > 0, and the current price per share is 0 (not
\* market_cap / 1,000,000) when they are <= 0.
C1_PricesDivideByShares ==
    CalledFmv =>
        /\ ArgEffectiveShares[1] > 0
        /\ RMul(ret.value.projected_price_per_share, ArgEffectiveShares)
             = RMax(Zero, RAdd(ArgMarketCap, ret.value.npv_pipeline))
        /\ ArgShares[1] > 0 => RMul(ret.value.current_price_per_share, ArgShares) = ArgMarketCap
        /\ ArgShares[1] <= 0 => ret.value.current_price_per_share = Zero

\* C1 as stated: both prices are quotients by the effective shares outstanding
C1_Original ==
    CalledFmv =>
        /\ RMul(ret.value.projected_price_per_share, ArgEffectiveShares)
             = RMax(Zero, RAdd(ArgMarketCap, ret.value.npv_pipeline))
        /\ RMul(ret.value.current_price_per_share, ArgEffectiveShares) = ArgMarketCap

\* shares_outstanding = 0 with a market cap of 5000: the projected price is
\* 5000 / 1,000,000 and the current price is 0
C1_Witness ==
    /\ CalledFmv
    /\ ArgShares = Zero
    /\ ArgMarketCap = R(5000)
    /\ args.pipeline_cash_flows = <<>>
    /\ ret.value.projected_price_per_share = Norm(5000, 1000000)
    /\ ret.value.current_price_per_share = Zero

\* C2: whenever calculate_fair_market_values returns, the projected market cap
\* (the projected price times the effective shares) is market_cap + npv_pipeline
\* when that is positive and 0 otherwise, and the projected price per share is
\* never negative; the same holds of the result main obtains.
C2_ProjectedNeverNegative ==
    /\ CalledFmv =>
        LET total == RAdd(ArgMarketCap, ret.value.npv_pipeline)
            projected_cap == RMul(ret.value.projected_price_per_share, ArgEffectiveShares)
        IN  /\ ret.value.projected_price_per_share[1] >= 0
            /\ projected_cap[1] >= 0
            /\ total[1] > 0 => projected_cap = total
            /\ total[1] <= 0 => projected_cap = Zero
    /\ (fn = "main" /\ Returned(valuation_results)) =>
            valuation_results.value.projected_price_per_share[1] >= 0

\* a market cap of 100 and a pipeline NPV of -500: the projected price is 0
C2_Witness ==
    /\ CalledFmv
    /\ ArgMarketCap = R(100)
    /\ ret.value.npv_pipeline = R(-500)
    /\ ret.value.projected_price_per_share = Zero

\* the sum over t = 1..n of cashflow[t] * v^t, from the last term back, with
\* v = 1 / (1 + rate)
RECURSIVE DiscountedSum(_, _, _)
DiscountedSum(s, v, t) ==
    IF s = <<>> THEN Zero
    ELSE RAdd(RMul(Head(s), RPow(v, t)), DiscountedSum(Tail(s), v, t + 1))

\* C3: for every rate > -1 calculate_npv returns the sum over t = 1..n of
\* cashflow[t] / (1+rate)^t: 0 for the empty sequence, cashflow[1] / (1+rate)
\* for a sequence of one element.
C3_NpvIsDiscountedSum ==
    (fn = "calculate_npv" /\ RLess(R(-1), args.discount_rate)) =>
        LET growth == RAdd(One, args.discount_rate)
        IN  /\ Returned(ret)
            /\ ret.value = DiscountedSum(args.cash_flows, RInv(growth), 1)
            /\ Len(args.cash_flows) = 0 => ret.value = Zero
            /\ Len(args.cash_flows) = 1 => RMul(ret.value, growth) = args.cash_flows[1]

\* [126, 1260] at 10%: 126/1.1 + 1260/1.21 = 139860/121
C3_Witness ==
    /\ fn = "calculate_npv"
    /\ args.cash_flows = <<R(126), R(1260)>>
    /\ args.discount_rate = Norm(1, 10)
    /\ Returned(ret)
    /\ ret.value = Norm(139860, 121)

\* C4 as stated: with discount rate -1 calculate_npv ends in an InvalidInput
\* error, whatever the sequence
C4_Original ==
    (fn = "calculate_npv" /\ args.discount_rate = R(-1)) => ret.kind = "InvalidInput"

\* what main fetched lacks the market cap or the shares outstanding
FetchedIncomplete ==
    /\ fn = "main"
    /\ ticker_symbol # ""
    /\ pc \notin {"idle", "fetch"}
    /\ \/ "error" \in DOMAIN stock_data
       \/ stock_data.market_cap.isNone
       \/ stock_data.shares_outstanding.isNone

\* C5 as stated: when the retrieval failed or returned incomplete fields,
\* calculate_fair_market_values is never invoked and the run that ended has
\* shown an error
C5_Original ==
    FetchedIncomplete =>
        /\ valuation_results = NotCalled
        /\ pc = "done" => "error" \in Range(screen)

ResultKeys == {"current_price_per_share", "projected_price_per_share", "npv_pipeline"}

\* C6 as stated: the returned result carries an annotation exactly when the
\* shares-outstanding fallback was substituted
C6_Original ==
    CalledFmv => ((ArgShares[1] <= 0) <=> (DOMAIN ret.value \ ResultKeys # {}))

CalledSimulate == fn = "simulate_pipeline_cash_flows"

ArgPeakRevenue ==
    RMul(R(args.eligible_population * args.market_penetration), RMul(args.price_per_patient, Norm(1, 100)))

\* C7: simulate_pipeline_cash_flows returns delay_years + ramp_years +
\* peak_years + decline_years entries; the first delay_years are -500e6; the
\* rest is the output of calculate_revenue_curve, which has ramp_years +
\* peak_years + decline_years entries: after the ramp_years entries of the ramp
\* come peak_years entries equal to the peak revenue and then, for
\* k = 1..decline_years, peak revenue * (1 - decline_rate)^k.
C7_CashFlowLayout ==
    CalledSimulate =>
        LET a == args
            out == ret.value
            curve == calculate_revenue_curve(a.eligible_population, a.price_per_patient, a.market_penetration, a.ramp_years, a.peak_years, a.decline_years, a.decline_rate)
            d == a.delay_years
            dr == d + a.ramp_years
            drp == dr + a.peak_years
        IN  /\ Len(out) = a.delay_years + a.ramp_years + a.peak_years + a.decline_years
            /\ Len(curve) = a.ramp_years + a.peak_years + a.decline_years
            /\ \A k \in 1..d : out[k] = R(-500)
            /\ \A k \in 1..Len(curve) : out[d + k] = curve[k]
            /\ \A k \in 1..a.peak_years : out[dr + k] = ArgPeakRevenue
            /\ \A k \in 1..a.decline_years :
                    out[drp + k] = RMul(ArgPeakRevenue, RPow(RSub(One, a.decline_rate), k))

\* two delay years, then a ramp of two, a peak of one and a decline of two
C7_Witness ==
    /\ CalledSimulate
    /\ args.delay_years = 2 /\ args.ramp_years = 2
    /\ args.peak_years = 1 /\ args.decline_years = 2
    /\ args.eligible_population = 100 /\ args.market_penetration = 70
    /\ args.decline_rate = Norm(1, 10)
    /\ ret.value = <<R(-500), R(-500), R(350), R(3500), R(3500), R(3150), R(2835)>>

CalledCurve == fn = "calculate_revenue_curve"

\* the ramp segment has equal steps
RampEqualSteps ==
    \A k \in 2..(args.ramp_years - 1) :
        RSub(ret.value[k + 1], ret.value[k]) = RSub(ret.value[k], ret.value[k - 1])

\* C8 (as amended): the ramp segment of calculate_revenue_curve has ramp_years
\* points; for ramp_years >= 2 its first point is 10% and its last point 100%
\* of peak_revenue, with equal steps in between; for ramp_years = 1 its single
\* point is 10% of peak_revenue.
C8_RampInterpolation ==
    CalledCurve =>
        /\ Len(ret.value) >= args.ramp_years
        /\ RMul(ret.value[1], R(10)) = ArgPeakRevenue
        /\ args.ramp_years >= 2 => ret.value[args.ramp_years] = ArgPeakRevenue
        /\ RampEqualSteps

\* C8 as stated: for every ramp_years >= 1 the first point of the ramp is 10%
\* and the last 100% of peak_revenue, with equal steps
C8_Original ==
    CalledCurve =>
        /\ RMul(ret.value[1], R(10)) = ArgPeakRevenue
        /\ ret.value[args.ramp_years] = ArgPeakRevenue
        /\ RampEqualSteps

\* ramp_years = 1 with a peak revenue of 3500: the ramp is the one point 350
C8_Witness ==
    /\ CalledCurve
    /\ args.ramp_years = 1
    /\ ArgPeakRevenue = R(3500)
    /\ ret.value[1] = R(350)
    /\ ret.value[2] = R(3500)

\* the asset of the end-to-end example
ExampleWidgets ==
    [rare_disease |-> "No", phase |-> "Phase 2", eligible_population |-> 100,
     market_penetration_rate |-> 70, price_per_patient |-> R(50), ramp_years |-> 2,
     peak_years |-> 1, decline_years |-> 1, decline_rate |-> Norm(1, 10)]

ExampleValued ==
    /\ fn = "main"
    /\ num_assets = 1
    /\ Len(assets) = 1
    /\ assets[1].widgets = ExampleWidgets
    /\ Returned(valuation_results)

\* |a - b| <= 1/2: a and b agree to the million
Approx(a, b) == RLeq(RAbs(RSub(a, b)), Norm(1, 2))

\* C9 (as amended): for the end-to-end example the cash flows are
\* [3.5e8, 3.5e9, 3.5e9, 3.15e9], the risk-adjusted cash flows
\* [1.26e8, 1.26e9, 1.26e9, 1.134e9], and the NPV is 42,123,060/14,641 million,
\* approximately 2,877,000,000.
C9_ExampleNpv ==
    ExampleValued =>
        /\ assets[1].cash_flows = <<R(350), R(3500), R(3500), R(3150)>>
        /\ assets[1].risk_adjusted_cash_flows = <<R(126), R(1260), R(1260), R(1134)>>
        /\ valuation_results.value.npv_pipeline = Norm(42123060, 14641)
        /\ Approx(valuation_results.value.npv_pipeline, R(2877))

\* C9 as stated: the NPV of the example is approximately 3,175,000,000
C9_Original ==
    ExampleValued =>
        /\ assets[1].cash_flows = <<R(350), R(3500), R(3500), R(3150)>>
        /\ assets[1].risk_adjusted_cash_flows = <<R(126), R(1260), R(1260), R(1134)>>
        /\ Approx(valuation_results.value.npv_pipeline, R(3175))

C9_Witness == ExampleValued /\ pc = "show"

\* the concatenation of the assets' risk-adjusted cash flows, in list order
RECURSIVE Concatenated(_)
Concatenated(as) ==
    IF as = <<>> THEN <<>>
    ELSE Concatenated(SubSeq(as, 1, Len(as) - 1)) \o as[Len(as)].risk_adjusted_cash_flows

\* the number of cash flows of the assets before asset n
RECURSIVE Offset(_, _)
Offset(as, n) ==
    IF n = 1 THEN 0 ELSE Offset(as, n - 1) + Len(as[n - 1].risk_adjusted_cash_flows)

\* asset n discounted with exponent shift + j for its element j
AssetDiscounted(as, n, shift) ==
    DiscountedSum(as[n].risk_adjusted_cash_flows, RInv(RAdd(One, DEFAULT_DISCOUNT_RATE)), shift + 1)

RECURSIVE SumOverAssets(_, _, _)
SumOverAssets(as, n, shifted) ==
    IF n = 0 THEN Zero
    ELSE RAdd(SumOverAssets(as, n - 1, shifted),
              AssetDiscounted(as, n, IF shifted THEN Offset(as, n) ELSE 0))

MainValued == fn = "main" /\ Returned(valuation_results)

\* C10: main appends each asset's risk-adjusted cash flows in list order and
\* discounts the combined sequence as one series: npv_pipeline is the sum, over
\* the assets i and their elements j, of the element discounted with exponent
\* (number of cash flows of the assets before i) + j.
C10_ConcatenatedDiscounting ==
    MainValued =>
        /\ Len(assets) = num_assets
        /\ pipeline_cash_flows = Concatenated(assets)
        /\ valuation_results.value.npv_pipeline = SumOverAssets(assets, num_assets, TRUE)

\* two assets whose combined NPV differs from the sum of their NPVs discounted
\* asset by asset
C10_Witness ==
    /\ MainValued
    /\ num_assets = 2
    /\ valuation_results.value.npv_pipeline # SumOverAssets(assets, num_assets, FALSE)

====
